---- MODULE Spec2Model ----
(***************************************************************************)
(* Sorting Visualizer: the step engine of the final program.               *)
(*                                                                         *)
(* SortState (bars, colorMap, algo, running, finished, speed, sizeIdx,     *)
(* comparisons, swaps, steps, stepIdx), the six step builders, and the     *)
(* body of main's frame loop (key handlers in source order, then the       *)
(* "advance sort steps" block).  Indices inside steps are the source's     *)
(* 0-based indices; TLA+ sequences are 1-based, so bars[j] of the source   *)
(* is bars[j + 1] here.                                                    *)
(*                                                                         *)
(* The source's six sizes 25..200 are scaled down to the sizes 1..MaxSize. *)
(***************************************************************************)
EXTENDS Integers, Sequences, FiniteSets, TLC

\* ------------------------------------------------------------------------
\* Bounds of the model
\* ------------------------------------------------------------------------

\* largest array size of the scaled-down size list (controller, Spec)
MaxSize == 3

\* largest array handed to the builders when they are replayed alone (SpecReplay)
MaxLen == 4

\* largest array of the long runs that start from a reversed array (SpecTick)
MaxRunLen == 9

\* ------------------------------------------------------------------------
\* Program constants
\* ------------------------------------------------------------------------

BUBBLE == 0
SELECTION == 1
INSERTION == 2
MERGE == 3
QUICK == 4
HEAP == 5
ALGO_COUNT == 6

\* colorMap tags: 0 default, 1 compare, 2 swap, 3 sorted
COL_DEFAULT == 0
COL_COMPARE == 1
COL_SWAP == 2
COL_SORTED == 3

MIN_SPEED == 1
MAX_SPEED == 10
INIT_SPEED == 5

\* number of selectable sizes, and the sizes themselves (scaled down)
SIZE_COUNT == MaxSize
SIZE_OPTIONS == [i \in 1..SIZE_COUNT |-> i]

\* SortState::sizeIdx starts at 3 of the source's 6 sizes: the middle of the list
INIT_SIZE_IDX == SIZE_COUNT \div 2

Min(a, b) == IF a <= b THEN a ELSE b
Max(a, b) == IF a >= b THEN a ELSE b

\* ------------------------------------------------------------------------
\* State
\* ------------------------------------------------------------------------

VARIABLES
    bars,         \* SortState::bars
    colorMap,     \* SortState::colorMap
    algo,         \* SortState::algo
    running,      \* SortState::running
    finished,     \* SortState::finished
    speed,        \* SortState::speed
    sizeIdx,      \* SortState::sizeIdx (0-based index into SIZE_OPTIONS)
    comparisons,  \* SortState::comparisons
    swaps,        \* SortState::swaps
    steps,        \* SortState::steps, each lambda as a record of its captures
    stepIdx,      \* SortState::stepIdx
    pc,           \* position in the body of main's frame loop
    startBars,    \* history: bars as the last shuffle left them
    executed,     \* history: indices of steps[] invoked since the last shuffle
    wasPaused,    \* history (SpecRun): SPACE has paused the current run
    speedChanged  \* history (SpecRun): UP/DOWN changed speed during the run

vars == <<bars, colorMap, algo, running, finished, speed, sizeIdx,
          comparisons, swaps, steps, stepIdx, pc, startBars, executed,
          wasPaused, speedChanged>>

hist == <<wasPaused, speedChanged>>

\* ------------------------------------------------------------------------
\* Helpers on sequences
\* ------------------------------------------------------------------------

\* std::swap(v[i], v[j]) with 0-based i, j
SwapAt(v, i, j) ==
    [v EXCEPT ![i + 1] = v[j + 1], ![j + 1] = v[i + 1]]

\* std::fill(colorMap.begin(), colorMap.end(), 0)
resetColors(cm) == [k \in 1..Len(cm) |-> COL_DEFAULT]

\* for (k = lo; k < hi; k++) cm[k] = c     (0-based k)
PaintRange(cm, lo, hi, c) ==
    [k \in 1..Len(cm) |-> IF lo <= k - 1 /\ k - 1 < hi THEN c ELSE cm[k]]

\* the value set of a sequence, and "v is a permutation of 1..n"
Range(v) == {v[k] : k \in 1..Len(v)}
IsPerm(v, n) == Len(v) = n /\ Range(v) = 1..n

\* all permutations of 1..n: what std::iota + std::shuffle can leave in bars
Perms(n) == {v \in [1..n -> 1..n] : Range(v) = 1..n}

RECURSIVE SortedInsert(_, _)
SortedInsert(v, k) ==
    IF k > Len(v) THEN <<>>
    ELSE LET rest == SortedInsert(v, k + 1)
             pos  == Cardinality({q \in 1..Len(rest) : rest[q] < v[k]})
         IN  SubSeq(rest, 1, pos) \o <<v[k]>> \o SubSeq(rest, pos + 1, Len(rest))

\* std::sort(v.begin(), v.end()): the elements of v in ascending order
StdSort(v) == SortedInsert(v, 1)

\* ------------------------------------------------------------------------
\* Steps.  A lambda pushed on SortState::steps is the record of its kind
\* and of the values it captures by copy; what it captures by reference
\* (s, cm) is the dataset record d it is run on:
\*   d = [bars, colorMap, comparisons, swaps]
\* ------------------------------------------------------------------------

Step(op, a, b, c, snap) == [op |-> op, a |-> a, b |-> b, c |-> c, snap |-> snap]

\* the final lambda of bubble, selection, insertion, merge: captures n
AllSortedStep(n) == Step("allSorted", n, 0, 0, <<>>)
\* the final lambda of quick and heap: captures n
SortAllStep(n) == Step("sortAll", n, 0, 0, <<>>)

\* the closing lambda with k < n - 1 for k < n
RunAllSortedShort(d, n) ==
    [d EXCEPT !.colorMap = PaintRange(d.colorMap, 0, n - 1, COL_SORTED)]

\* for (k = 0; k < n; k++) s.colorMap[k] = 3
RunAllSorted(d, n) ==
    [d EXCEPT !.colorMap = PaintRange(d.colorMap, 0, n, COL_SORTED)]

\* std::sort(s.bars...); for (k = 0; k < n; k++) s.colorMap[k] = 3
RunSortAll(d, n) ==
    [d EXCEPT !.bars = StdSort(d.bars),
              !.colorMap = PaintRange(d.colorMap, 0, n, COL_SORTED)]

\* mutant: the bubble lambda with its comparison inverted (< for >)
RunBubbleInverted(d, j, i, n) ==
    LET lt  == d.bars[j + 1] < d.bars[j + 2]
        c1  == [resetColors(d.colorMap) EXCEPT ![j + 1] = COL_COMPARE,
                                               ![j + 2] = COL_COMPARE]
        c2  == IF lt THEN [c1 EXCEPT ![j + 1] = COL_SWAP, ![j + 2] = COL_SWAP]
               ELSE c1
    IN  [bars        |-> IF lt THEN SwapAt(d.bars, j, j + 1) ELSE d.bars,
         colorMap    |-> PaintRange(c2, n - i - 1, n, COL_SORTED),
         comparisons |-> d.comparisons + 1,
         swaps       |-> IF lt THEN d.swaps + 1 ELSE d.swaps]

\* the bubble lambda with s.comparisons++ moved inside the if
RunBubbleCountInIf(d, j, i, n) ==
    LET gt  == d.bars[j + 1] > d.bars[j + 2]
        c1  == [resetColors(d.colorMap) EXCEPT ![j + 1] = COL_COMPARE,
                                               ![j + 2] = COL_COMPARE]
        c2  == IF gt THEN [c1 EXCEPT ![j + 1] = COL_SWAP, ![j + 2] = COL_SWAP]
               ELSE c1
    IN  [bars        |-> IF gt THEN SwapAt(d.bars, j, j + 1) ELSE d.bars,
         colorMap    |-> PaintRange(c2, n - i - 1, n, COL_SORTED),
         comparisons |-> IF gt THEN d.comparisons + 1 ELSE d.comparisons,
         swaps       |-> IF gt THEN d.swaps + 1 ELSE d.swaps]

\* -- bubble: lambda [&s, j, i, n] -----------------------------------------
RunBubble(d, j, i, n) ==
    LET gt  == d.bars[j + 1] > d.bars[j + 2]
        c1  == [resetColors(d.colorMap) EXCEPT ![j + 1] = COL_COMPARE,
                                               ![j + 2] = COL_COMPARE]
        c2  == IF gt THEN [c1 EXCEPT ![j + 1] = COL_SWAP, ![j + 2] = COL_SWAP]
               ELSE c1
    IN  [bars        |-> IF gt THEN SwapAt(d.bars, j, j + 1) ELSE d.bars,
         colorMap    |-> PaintRange(c2, n - i - 1, n, COL_SORTED),
         comparisons |-> d.comparisons + 1,
         swaps       |-> IF gt THEN d.swaps + 1 ELSE d.swaps]

\* -- selection: lambda [&s, i, n] ----------------------------------------
\* the inner for (j = i + 1; j < n; j++) loop; r = [mi, cm, cc]
RECURSIVE SelectionScan(_, _, _, _, _)
SelectionScan(b, r, i, j, n) ==
    IF j >= n THEN r
    ELSE LET c1 == [r.cm EXCEPT ![j + 1] = COL_COMPARE]
             lt == b[j + 1] < b[r.mi + 1]
             c2 == IF lt /\ r.mi # i THEN [c1 EXCEPT ![r.mi + 1] = COL_DEFAULT]
                   ELSE c1
             c3 == IF lt THEN [c2 EXCEPT ![j + 1] = COL_SWAP] ELSE c2
         IN  SelectionScan(b, [mi |-> IF lt THEN j ELSE r.mi,
                               cm |-> c3,
                               cc |-> r.cc + 1], i, j + 1, n)

\* mutant: the selection lambda assigns the pass's count to s.comparisons
\* instead of adding to it
RunSelectionAssign(d, i, n) ==
    LET c0 == [resetColors(d.colorMap) EXCEPT ![i + 1] = COL_SWAP]
        r  == SelectionScan(d.bars, [mi |-> i, cm |-> c0, cc |-> 0], i, i + 1, n)
    IN  [bars        |-> IF r.mi # i THEN SwapAt(d.bars, i, r.mi) ELSE d.bars,
         colorMap    |-> PaintRange(r.cm, 0, i + 1, COL_SORTED),
         comparisons |-> r.cc,
         swaps       |-> IF r.mi # i THEN d.swaps + 1 ELSE d.swaps]

RunSelection(d, i, n) ==
    LET c0 == [resetColors(d.colorMap) EXCEPT ![i + 1] = COL_SWAP]
        r  == SelectionScan(d.bars, [mi |-> i, cm |-> c0, cc |-> d.comparisons],
                            i, i + 1, n)
    IN  [bars        |-> IF r.mi # i THEN SwapAt(d.bars, i, r.mi) ELSE d.bars,
         colorMap    |-> PaintRange(r.cm, 0, i + 1, COL_SORTED),
         comparisons |-> r.cc,
         swaps       |-> IF r.mi # i THEN d.swaps + 1 ELSE d.swaps]

\* -- insertion: lambda [&s, i] -------------------------------------------
\* the while (j >= 0 && s.bars[j] > key) loop; r = [bars, cm, j, cc, sc]
RECURSIVE InsertionShift(_, _)
InsertionShift(r, key) ==
    IF r.j >= 0 /\ r.bars[r.j + 1] > key
    THEN InsertionShift([bars |-> [r.bars EXCEPT ![r.j + 2] = r.bars[r.j + 1]],
                         cm   |-> [r.cm EXCEPT ![r.j + 2] = COL_COMPARE],
                         j    |-> r.j - 1,
                         cc   |-> r.cc + 1,
                         sc   |-> r.sc + 1], key)
    ELSE r

\* mutant: the insertion lambda without its final s.bars[j + 1] = key
RunInsertionNoStore(d, i) ==
    LET key == d.bars[i + 1]
        c0  == [resetColors(d.colorMap) EXCEPT ![i + 1] = COL_SWAP]
        r   == InsertionShift([bars |-> d.bars, cm |-> c0, j |-> i - 1,
                               cc |-> d.comparisons, sc |-> d.swaps], key)
    IN  [bars        |-> r.bars,
         colorMap    |-> [r.cm EXCEPT ![r.j + 2] = COL_SWAP],
         comparisons |-> r.cc,
         swaps       |-> r.sc]

\* the insertion lambda counting the comparison that ends the while loop too
RunInsertionCountLast(d, i) ==
    LET key == d.bars[i + 1]
        c0  == [resetColors(d.colorMap) EXCEPT ![i + 1] = COL_SWAP]
        r   == InsertionShift([bars |-> d.bars, cm |-> c0, j |-> i - 1,
                               cc |-> d.comparisons, sc |-> d.swaps], key)
    IN  [bars        |-> [r.bars EXCEPT ![r.j + 2] = key],
         colorMap    |-> [r.cm EXCEPT ![r.j + 2] = COL_SWAP],
         comparisons |-> IF r.j >= 0 THEN r.cc + 1 ELSE r.cc,
         swaps       |-> r.sc]

RunInsertion(d, i) ==
    LET key == d.bars[i + 1]
        c0  == [resetColors(d.colorMap) EXCEPT ![i + 1] = COL_SWAP]
        r   == InsertionShift([bars |-> d.bars, cm |-> c0, j |-> i - 1,
                               cc |-> d.comparisons, sc |-> d.swaps], key)
    IN  [bars        |-> [r.bars EXCEPT ![r.j + 2] = key],
         colorMap    |-> [r.cm EXCEPT ![r.j + 2] = COL_SWAP],
         comparisons |-> r.cc,
         swaps       |-> r.sc]

\* -- merge: lambda [&s, l, m, r] -----------------------------------------
\* the three while loops over tmp; q = [bars, i2, j2, k, cc, sc]
RECURSIVE MergeLoop(_, _, _, _, _)
MergeLoop(q, tmp, l, m, r) ==
    IF q.i2 <= m - l /\ q.j2 <= r - l
    THEN IF tmp[q.i2 + 1] <= tmp[q.j2 + 1]
         THEN MergeLoop([q EXCEPT !.bars = [@ EXCEPT ![q.k + 1] = tmp[q.i2 + 1]],
                                  !.k = @ + 1, !.i2 = @ + 1, !.cc = @ + 1],
                        tmp, l, m, r)
         ELSE MergeLoop([q EXCEPT !.bars = [@ EXCEPT ![q.k + 1] = tmp[q.j2 + 1]],
                                  !.k = @ + 1, !.j2 = @ + 1, !.cc = @ + 1,
                                  !.sc = @ + 1],
                        tmp, l, m, r)
    ELSE IF q.i2 <= m - l
    THEN MergeLoop([q EXCEPT !.bars = [@ EXCEPT ![q.k + 1] = tmp[q.i2 + 1]],
                             !.k = @ + 1, !.i2 = @ + 1], tmp, l, m, r)
    ELSE IF q.j2 <= r - l
    THEN MergeLoop([q EXCEPT !.bars = [@ EXCEPT ![q.k + 1] = tmp[q.j2 + 1]],
                             !.k = @ + 1, !.j2 = @ + 1], tmp, l, m, r)
    ELSE q

RunMerge(d, l, m, r) ==
    LET tmp == SubSeq(d.bars, l + 1, r + 1)
        q   == MergeLoop([bars |-> d.bars, i2 |-> 0, j2 |-> m - l + 1, k |-> l,
                          cc |-> d.comparisons, sc |-> d.swaps], tmp, l, m, r)
    IN  [bars        |-> q.bars,
         colorMap    |-> PaintRange(resetColors(d.colorMap), l, r + 1, COL_SWAP),
         comparisons |-> q.cc,
         swaps       |-> q.sc]

\* -- quick: lambda [&s, snap, sL, sR] ------------------------------------
\* the for (j = sL; j < sR; j++) loop on the live bars; q = [bars, cm, i3, cc, sc]
RECURSIVE PartitionLoop(_, _, _, _)
PartitionLoop(q, p2, j, sR) ==
    IF j >= sR THEN q
    ELSE LET c1 == [q.cm EXCEPT ![j + 1] = COL_COMPARE]
         IN  IF q.bars[j + 1] <= p2
             THEN PartitionLoop([bars |-> SwapAt(q.bars, q.i3 + 1, j),
                                 cm   |-> [c1 EXCEPT ![q.i3 + 2] = COL_SWAP],
                                 i3   |-> q.i3 + 1,
                                 cc   |-> q.cc + 1,
                                 sc   |-> q.sc + 1], p2, j + 1, sR)
             ELSE PartitionLoop([q EXCEPT !.cm = c1, !.cc = @ + 1], p2, j + 1, sR)

\* RunPartition without the closing swap of the pivot into place
RunPartitionNoPivotSwap(d, sL, sR) ==
    LET p2 == d.bars[sR + 1]
        c0 == [resetColors(d.colorMap) EXCEPT ![sR + 1] = COL_SWAP]
        q  == PartitionLoop([bars |-> d.bars, cm |-> c0, i3 |-> sL - 1,
                             cc |-> d.comparisons, sc |-> d.swaps], p2, sL, sR)
    IN  [bars        |-> q.bars,
         colorMap    |-> [q.cm EXCEPT ![q.i3 + 2] = COL_SORTED],
         comparisons |-> q.cc,
         swaps       |-> q.sc]

RunPartition(d, sL, sR) ==
    LET p2 == d.bars[sR + 1]
        c0 == [resetColors(d.colorMap) EXCEPT ![sR + 1] = COL_SWAP]
        q  == PartitionLoop([bars |-> d.bars, cm |-> c0, i3 |-> sL - 1,
                             cc |-> d.comparisons, sc |-> d.swaps], p2, sL, sR)
    IN  [bars        |-> SwapAt(q.bars, q.i3 + 1, sR),
         colorMap    |-> [q.cm EXCEPT ![q.i3 + 2] = COL_SORTED],
         comparisons |-> q.cc,
         swaps       |-> q.sc]

\* the heapify lambda swapping the live bars as well
RunHeapColorSwapping(d, ci, cl) ==
    [d EXCEPT !.bars = SwapAt(d.bars, ci, cl),
              !.colorMap = [resetColors(d.colorMap) EXCEPT ![ci + 1] = COL_SWAP,
                                                           ![cl + 1] = COL_COMPARE]]

\* -- heap: the four lambdas of heapify and buildHeap ---------------------
\* heapify's lambda [&cm, ci, cl]
RunHeapColor(d, ci, cl) ==
    [d EXCEPT !.colorMap = [resetColors(d.colorMap) EXCEPT ![ci + 1] = COL_SWAP,
                                                           ![cl + 1] = COL_COMPARE]]

\* build-max-heap lambda [&s, snap]
RunHeapSnap(d, snap) ==
    [d EXCEPT !.bars = snap, !.colorMap = resetColors(d.colorMap)]

\* extract lambda [&s, snap, ss, n]
RunHeapExtract(d, snap, ss, n) ==
    [d EXCEPT !.bars = snap,
              !.colorMap = PaintRange([resetColors(d.colorMap) EXCEPT ![1] = COL_SWAP],
                                      ss, n, COL_SORTED)]

\* after-repair lambda [&s, snap2, si2, n]
RunHeapFixed(d, snap2, si2, n) ==
    [d EXCEPT !.bars = snap2,
              !.colorMap = PaintRange(resetColors(d.colorMap), si2, n, COL_SORTED)]

\* s.steps[k](): invoke one lambda on the live dataset
RunStep(st, d) ==
    CASE st.op = "bubble"      -> RunBubble(d, st.a, st.b, st.c)
      [] st.op = "selection"   -> RunSelection(d, st.a, st.b)
      [] st.op = "insertion"   -> RunInsertion(d, st.a)
      [] st.op = "merge"       -> RunMerge(d, st.a, st.b, st.c)
      [] st.op = "partition"   -> RunPartition(d, st.a, st.b)
      [] st.op = "heapColor"   -> RunHeapColor(d, st.a, st.b)
      [] st.op = "heapSnap"    -> RunHeapSnap(d, st.snap)
      [] st.op = "heapExtract" -> RunHeapExtract(d, st.snap, st.a, st.b)
      [] st.op = "heapFixed"   -> RunHeapFixed(d, st.snap, st.a, st.b)
      [] st.op = "allSorted"   -> RunAllSorted(d, st.a)
      [] st.op = "sortAll"     -> RunSortAll(d, st.a)

\* ------------------------------------------------------------------------
\* Builders: each returns the lambdas it pushes, in push order
\* ------------------------------------------------------------------------

\* for (i = 0; i < n - 1; i++) for (j = 0; j < n - 1 - i; j++) push
RECURSIVE BubbleLoop(_, _, _, _)
BubbleLoop(out, i, j, n) ==
    IF i >= n - 1 THEN out
    ELSE IF j >= n - 1 - i THEN BubbleLoop(out, i + 1, 0, n)
    ELSE BubbleLoop(Append(out, Step("bubble", j, i, n, <<>>)), i, j + 1, n)

\* BubbleLoop with an inner loop that does not shrink with the pass number
RECURSIVE BubbleLoopFullPasses(_, _, _, _)
BubbleLoopFullPasses(out, i, j, n) ==
    IF i >= n - 1 THEN out
    ELSE IF j >= n - 1 THEN BubbleLoopFullPasses(out, i + 1, 0, n)
    ELSE BubbleLoopFullPasses(Append(out, Step("bubble", j, i, n, <<>>)), i, j + 1, n)

buildBubbleFullPasses(n) == Append(BubbleLoopFullPasses(<<>>, 0, 0, n), AllSortedStep(n))

buildBubble(n) == Append(BubbleLoop(<<>>, 0, 0, n), AllSortedStep(n))

RECURSIVE SelectionLoop(_, _, _)
SelectionLoop(out, i, n) ==
    IF i >= n - 1 THEN out
    ELSE SelectionLoop(Append(out, Step("selection", i, n, 0, <<>>)), i + 1, n)

buildSelection(n) == Append(SelectionLoop(<<>>, 0, n), AllSortedStep(n))

RECURSIVE InsertionLoop(_, _, _)
InsertionLoop(out, i, n) ==
    IF i >= n THEN out
    ELSE InsertionLoop(Append(out, Step("insertion", i, 0, 0, <<>>)), i + 1, n)

\* buildInsertion with its loop started at i = 0
buildInsertionFromZero(n) == Append(InsertionLoop(<<>>, 0, n), AllSortedStep(n))

buildInsertion(n) == Append(InsertionLoop(<<>>, 1, n), AllSortedStep(n))

\* for (w = 1; w < n; w *= 2) for (i = 0; i < n; i += 2 * w) ...
RECURSIVE MergeBuildLoop(_, _, _, _)
MergeBuildLoop(out, w, i, n) ==
    IF w >= n THEN out
    ELSE IF i >= n THEN MergeBuildLoop(out, 2 * w, 0, n)
    ELSE LET l == i
             m == Min(i + w - 1, n - 1)
             r == Min(i + 2 * w - 1, n - 1)
         IN  IF m >= r THEN MergeBuildLoop(out, w, i + 2 * w, n)
             ELSE MergeBuildLoop(Append(out, Step("merge", l, m, r, <<>>)),
                                 w, i + 2 * w, n)

\* mutant: buildMerge without the std::min clamps, so that a pair whose right
\* run is cut short by the end of the array is skipped
RECURSIVE MergeBuildLoopNoClamp(_, _, _, _)
MergeBuildLoopNoClamp(out, w, i, n) ==
    IF w >= n THEN out
    ELSE IF i >= n THEN MergeBuildLoopNoClamp(out, 2 * w, 0, n)
    ELSE LET l == i
             m == i + w - 1
             r == i + 2 * w - 1
         IN  IF r > n - 1 THEN MergeBuildLoopNoClamp(out, w, i + 2 * w, n)
             ELSE MergeBuildLoopNoClamp(Append(out, Step("merge", l, m, r, <<>>)),
                                        w, i + 2 * w, n)

buildMergeNoClamp(n) == Append(MergeBuildLoopNoClamp(<<>>, 1, 0, n), AllSortedStep(n))

buildMerge(n) == Append(MergeBuildLoop(<<>>, 1, 0, n), AllSortedStep(n))

\* the shadow partition of buildQuick: for (j = l; j < r; j++) ... on arr
RECURSIVE ShadowPartition(_, _, _, _)
ShadowPartition(q, pivot, j, r) ==
    IF j >= r THEN q
    ELSE IF q.arr[j + 1] <= pivot
    THEN ShadowPartition([arr |-> SwapAt(q.arr, q.i2 + 1, j), i2 |-> q.i2 + 1],
                         pivot, j + 1, r)
    ELSE ShadowPartition(q, pivot, j + 1, r)

\* one iteration of buildQuick on its shadow array: arr after the partition of
\* [l, r] (the for loop over arr and the swap of the pivot into place)
ShadowAfterPartition(arr, l, r) ==
    LET q == ShadowPartition([arr |-> arr, i2 |-> l - 1], arr[r + 1], l, r)
    IN  SwapAt(q.arr, q.i2 + 1, r)

\* while (!work.empty()) ...; work is a stack whose back is its last element
RECURSIVE QuickLoop(_, _, _)
QuickLoop(out, arr, work) ==
    IF work = <<>> THEN out
    ELSE LET wr   == work[Len(work)]
             rest == SubSeq(work, 1, Len(work) - 1)
             l    == wr.l
             r    == wr.r
         IN  IF l >= r THEN QuickLoop(out, arr, rest)
             ELSE LET pivot == arr[r + 1]
                      q     == ShadowPartition([arr |-> arr, i2 |-> l - 1],
                                               pivot, l, r)
                      arr2  == SwapAt(q.arr, q.i2 + 1, r)
                      p     == q.i2 + 1
                      w1    == IF p - 1 > l
                               THEN Append(rest, [l |-> l, r |-> p - 1]) ELSE rest
                      w2    == IF p + 1 < r
                               THEN Append(w1, [l |-> p + 1, r |-> r]) ELSE w1
                  IN  QuickLoop(Append(out, Step("partition", l, r, 0, arr)),
                                arr2, w2)

buildQuick(b, n) ==
    Append(QuickLoop(<<>>, b, <<[l |-> 0, r |-> n - 1]>>), SortAllStep(n))

\* heapify(arr, steps, cm, cc, sc, n, i); h = [arr, steps, cc, sc]
RECURSIVE heapify(_, _, _)
heapify(h, n, i) ==
    LET l   == 2 * i + 1
        r   == 2 * i + 2
        lg1 == IF l < n /\ h.arr[l + 1] > h.arr[i + 1] THEN l ELSE i
        lg  == IF r < n /\ h.arr[r + 1] > h.arr[lg1 + 1] THEN r ELSE lg1
        cc  == h.cc + (IF l < n THEN 1 ELSE 0) + (IF r < n THEN 1 ELSE 0)
    IN  IF lg # i
        THEN heapify([arr   |-> SwapAt(h.arr, i, lg),
                      steps |-> Append(h.steps, Step("heapColor", i, lg, 0, <<>>)),
                      cc    |-> cc,
                      sc    |-> h.sc + 1], n, lg)
        ELSE [h EXCEPT !.cc = cc]

\* for (i = n / 2 - 1; i >= 0; i--) { heapify; push snap }
RECURSIVE HeapBuildLoop(_, _, _)
HeapBuildLoop(h, i, n) ==
    IF i < 0 THEN h
    ELSE LET h1 == heapify(h, n, i)
         IN  HeapBuildLoop([h1 EXCEPT !.steps =
                                Append(@, Step("heapSnap", 0, 0, 0, h1.arr))],
                           i - 1, n)

\* for (i = n - 1; i > 0; i--) { swap; push; heapify; push }
RECURSIVE HeapExtractLoop(_, _, _)
HeapExtractLoop(h, i, n) ==
    IF i <= 0 THEN h
    ELSE LET arr1 == SwapAt(h.arr, 0, i)
             h1   == [arr   |-> arr1,
                      steps |-> Append(h.steps, Step("heapExtract", i, n, 0, arr1)),
                      cc    |-> h.cc,
                      sc    |-> h.sc + 1]
             h2   == heapify(h1, i, 0)
         IN  HeapExtractLoop([h2 EXCEPT !.steps =
                                  Append(@, Step("heapFixed", i, n, 0, h2.arr))],
                             i - 1, n)

\* the extract loop running down to i = 0 (i >= 0 for i > 0)
RECURSIVE HeapExtractLoopToZero(_, _, _)
HeapExtractLoopToZero(h, i, n) ==
    IF i < 0 THEN h
    ELSE LET arr1 == SwapAt(h.arr, 0, i)
             h1   == [arr   |-> arr1,
                      steps |-> Append(h.steps, Step("heapExtract", i, n, 0, arr1)),
                      cc    |-> h.cc,
                      sc    |-> h.sc + 1]
             h2   == heapify(h1, i, 0)
         IN  HeapExtractLoopToZero([h2 EXCEPT !.steps =
                                        Append(@, Step("heapFixed", i, n, 0, h2.arr))],
                                   i - 1, n)

buildHeapExtractToZero(b, n, cc, sc) ==
    LET h0 == [arr |-> b, steps |-> <<>>, cc |-> cc, sc |-> sc]
        h1 == HeapBuildLoop(h0, (n \div 2) - 1, n)
        h2 == HeapExtractLoopToZero(h1, n - 1, n)
    IN  [h2 EXCEPT !.steps = Append(@, SortAllStep(n))]

\* the extract loop stopping one round early (i > 1 for i > 0)
RECURSIVE HeapExtractLoopStopEarly(_, _, _)
HeapExtractLoopStopEarly(h, i, n) ==
    IF i <= 1 THEN h
    ELSE LET arr1 == SwapAt(h.arr, 0, i)
             h1   == [arr   |-> arr1,
                      steps |-> Append(h.steps, Step("heapExtract", i, n, 0, arr1)),
                      cc    |-> h.cc,
                      sc    |-> h.sc + 1]
             h2   == heapify(h1, i, 0)
         IN  HeapExtractLoopStopEarly([h2 EXCEPT !.steps =
                                           Append(@, Step("heapFixed", i, n, 0, h2.arr))],
                                      i - 1, n)

buildHeapStopEarly(b, n, cc, sc) ==
    LET h0 == [arr |-> b, steps |-> <<>>, cc |-> cc, sc |-> sc]
        h1 == HeapBuildLoop(h0, (n \div 2) - 1, n)
        h2 == HeapExtractLoopStopEarly(h1, n - 1, n)
    IN  [h2 EXCEPT !.steps = Append(@, SortAllStep(n))]

\* buildHeap: the lambdas, and the counters it leaves in s.comparisons, s.swaps
buildHeap(b, n, cc, sc) ==
    LET h0 == [arr |-> b, steps |-> <<>>, cc |-> cc, sc |-> sc]
        h1 == HeapBuildLoop(h0, (n \div 2) - 1, n)
        h2 == HeapExtractLoop(h1, n - 1, n)
    IN  [h2 EXCEPT !.steps = Append(@, SortAllStep(n))]

\* buildSteps(s): what it leaves in steps, comparisons, swaps, colorMap
buildSteps(a, b, cm, n) ==
    LET plain(sq) == [steps |-> sq, comparisons |-> 0, swaps |-> 0,
                      colorMap |-> resetColors(cm)]
    IN  CASE a = BUBBLE    -> plain(buildBubble(n))
          [] a = SELECTION -> plain(buildSelection(n))
          [] a = INSERTION -> plain(buildInsertion(n))
          [] a = MERGE     -> plain(buildMerge(n))
          [] a = QUICK     -> plain(buildQuick(b, n))
          [] a = HEAP      -> LET h == buildHeap(b, n, 0, 0)
                              IN  [steps |-> h.steps, comparisons |-> h.cc,
                                   swaps |-> h.sc, colorMap |-> resetColors(cm)]

\* ------------------------------------------------------------------------
\* Speed curve: spf = (int)std::round(std::pow(2.8f, (s.speed - 1) / 3.0f))
\* ------------------------------------------------------------------------
\* With e = speed - 1 and x = 2.8^(e/3), std::round (half away from zero)
\* returns the k with k - 1/2 <= x < k + 1/2, that is
\*     (2k - 1)^3 * 5^e  <=  8 * 14^e  <  (2k + 1)^3 * 5^e.
\* The products exceed 32 bits, so they are computed on little-endian
\* sequences of base-10000 digits.  (x is never within 1e-3 of a half
\* integer for e in 0..9, so float rounding does not change the result.)

RECURSIVE BigMulCarry(_, _, _, _)
BigMulCarry(x, m, k, carry) ==
    IF k > Len(x) THEN (IF carry = 0 THEN <<>> ELSE <<carry>>)
    ELSE LET p == x[k] * m + carry
         IN  <<p % 10000>> \o BigMulCarry(x, m, k + 1, p \div 10000)

BigMul(x, m) == BigMulCarry(x, m, 1, 0)

RECURSIVE BigMulPow(_, _, _)
BigMulPow(x, m, e) == IF e = 0 THEN x ELSE BigMulPow(BigMul(x, m), m, e - 1)

RECURSIVE BigLessFrom(_, _, _)
BigLessFrom(x, y, k) ==
    IF k = 0 THEN FALSE
    ELSE IF x[k] # y[k] THEN x[k] < y[k]
    ELSE BigLessFrom(x, y, k - 1)

BigLess(x, y) ==
    IF Len(x) # Len(y) THEN Len(x) < Len(y) ELSE BigLessFrom(x, y, Len(x))

RECURSIVE IntPow(_, _)
IntPow(b, e) == IF e = 0 THEN 1 ELSE b * IntPow(b, e - 1)

\* the curve with the sign of the exponent flipped ((1 - speed) / 3):
\* x = (5/14)^(e/3), so (2k - 1)^3 * 14^e <= 8 * 5^e < (2k + 1)^3 * 14^e
stepsPerTickNegExp(sp) ==
    LET e      == sp - 1
        rhs    == BigMulPow(<<8>>, 5, e)
        lhs(m) == BigMulPow(BigMulPow(<<1>>, m, 3), 14, e)
    IN  CHOOSE k \in 0..1 :
            /\ k = 0 \/ ~BigLess(rhs, lhs(2 * k - 1))
            /\ BigLess(rhs, lhs(2 * k + 1))

\* the curve without std::round, the (int) cast truncating: the k with
\* k <= x < k + 1, that is k^3 * 5^e <= 14^e < (k + 1)^3 * 5^e
stepsPerTickTruncated(sp) ==
    LET e      == sp - 1
        rhs    == BigMulPow(<<1>>, 14, e)
        lhs(m) == BigMulPow(BigMulPow(<<1>>, m, 3), 5, e)
    IN  CHOOSE k \in 0..IntPow(3, (e \div 3) + 1) :
            /\ k = 0 \/ ~BigLess(rhs, lhs(k))
            /\ BigLess(rhs, lhs(k + 1))

stepsPerTick(sp) ==
    LET e      == sp - 1
        rhs    == BigMulPow(<<8>>, 14, e)
        lhs(m) == BigMulPow(BigMulPow(<<1>>, m, 3), 5, e)
    IN  CHOOSE k \in 0..IntPow(3, (e \div 3) + 1) :
            /\ k = 0 \/ ~BigLess(rhs, lhs(2 * k - 1))
            /\ BigLess(rhs, lhs(2 * k + 1))

\* the curve at the speeds the controller can hold
SpfTable == [sp \in MIN_SPEED..MAX_SPEED |-> stepsPerTick(sp)]

\* ------------------------------------------------------------------------
\* Controller
\* ------------------------------------------------------------------------

\* SortState::barCount() for a given sizeIdx
barCountOf(si) == SIZE_OPTIONS[si + 1]
barCount == barCountOf(sizeIdx)

\* positions in the frame loop's body: the next key test to evaluate
AT_ALGO(i) == i + 1
AT_R == ALGO_COUNT + 1
AT_SPACE == ALGO_COUNT + 2
AT_UP == ALGO_COUNT + 3
AT_DOWN == ALGO_COUNT + 4
AT_D == ALGO_COUNT + 5
AT_A == ALGO_COUNT + 6
AT_ADVANCE == ALGO_COUNT + 7

\* shuffle without s.steps.clear()
shuffleKeepSteps(n, p) ==
    /\ bars' = p
    /\ colorMap' = [k \in 1..n |-> COL_DEFAULT]
    /\ running' = FALSE
    /\ finished' = FALSE
    /\ comparisons' = 0
    /\ swaps' = 0
    /\ steps' = steps
    /\ stepIdx' = 0
    /\ startBars' = p
    /\ executed' = <<>>

\* shuffle(s, anim) on an array of n bars, std::shuffle leaving p
shuffle(n, p) ==
    /\ bars' = p
    /\ colorMap' = [k \in 1..n |-> COL_DEFAULT]
    /\ running' = FALSE
    /\ finished' = FALSE
    /\ comparisons' = 0
    /\ swaps' = 0
    /\ steps' = <<>>
    /\ stepIdx' = 0
    /\ startBars' = p
    /\ executed' = <<>>

Init ==
    /\ algo = BUBBLE
    /\ speed = INIT_SPEED
    /\ sizeIdx = INIT_SIZE_IDX
    /\ bars \in Perms(barCountOf(INIT_SIZE_IDX))
    /\ colorMap = [k \in 1..barCountOf(INIT_SIZE_IDX) |-> COL_DEFAULT]
    /\ running = FALSE
    /\ finished = FALSE
    /\ comparisons = 0
    /\ swaps = 0
    /\ steps = <<>>
    /\ stepIdx = 0
    /\ pc = AT_ALGO(0)
    /\ startBars = bars
    /\ executed = <<>>
    /\ wasPaused = FALSE
    /\ speedChanged = FALSE

\* the algorithm key resetting only when it changes the algorithm
KeyAlgoIfChanged(i, p) ==
    /\ pc <= AT_ALGO(i)
    /\ pc' = AT_ALGO(i) + 1
    /\ IF algo # i
       THEN /\ algo' = i
            /\ shuffle(barCount, p)
       ELSE /\ p = bars
            /\ UNCHANGED <<bars, colorMap, algo, running, finished, comparisons,
                           swaps, steps, stepIdx, startBars, executed>>
    /\ UNCHANGED <<speed, sizeIdx>>

\* the algorithm key selecting the algorithm without the shuffle
KeyAlgoNoShuffle(i, p) ==
    /\ pc <= AT_ALGO(i)
    /\ pc' = AT_ALGO(i) + 1
    /\ algo' = i
    /\ p = bars
    /\ UNCHANGED <<bars, colorMap, running, finished, comparisons, swaps, steps,
                   stepIdx, startBars, executed>>
    /\ UNCHANGED <<speed, sizeIdx>>

\* if (IsKeyPressed(KEY_ONE + i)) { s.algo = i; shuffle(s, anim); }
KeyAlgo(i, p) ==
    /\ pc <= AT_ALGO(i)
    /\ pc' = AT_ALGO(i) + 1
    /\ algo' = i
    /\ shuffle(barCount, p)
    /\ UNCHANGED <<speed, sizeIdx>>

\* the R handler putting the speed back to its initial value as well
KeyRResetSpeed(p) ==
    /\ pc <= AT_R
    /\ pc' = AT_R + 1
    /\ shuffle(barCount, p)
    /\ speed' = INIT_SPEED
    /\ UNCHANGED <<algo, sizeIdx>>

\* if (IsKeyPressed(KEY_R)) shuffle(s, anim);
KeyR(p) ==
    /\ pc <= AT_R
    /\ pc' = AT_R + 1
    /\ shuffle(barCount, p)
    /\ UNCHANGED <<algo, speed, sizeIdx>>

\* mutant: SPACE rebuilds the steps whenever the sort is not running, also on
\* resume (the steps.empty() test dropped)
KeySpaceRebuild(p) ==
    /\ pc <= AT_SPACE
    /\ pc' = AT_SPACE + 1
    /\ IF finished
       THEN /\ shuffle(barCount, p)
            /\ UNCHANGED <<algo, speed, sizeIdx>>
       ELSE /\ IF ~running
               THEN LET b == buildSteps(algo, bars, colorMap, barCount)
                    IN  /\ steps' = b.steps
                        /\ stepIdx' = 0
                        /\ comparisons' = b.comparisons
                        /\ swaps' = b.swaps
                        /\ colorMap' = b.colorMap
               ELSE UNCHANGED <<steps, stepIdx, comparisons, swaps, colorMap>>
            /\ running' = ~running
            /\ UNCHANGED <<bars, algo, finished, speed, sizeIdx, startBars, executed>>

\* mutant: SPACE toggles running without testing finished first
KeySpaceNoFinishedTest(p) ==
    /\ pc <= AT_SPACE
    /\ pc' = AT_SPACE + 1
    /\ IF ~running /\ steps = <<>>
       THEN LET b == buildSteps(algo, bars, colorMap, barCount)
            IN  /\ steps' = b.steps
                /\ stepIdx' = 0
                /\ comparisons' = b.comparisons
                /\ swaps' = b.swaps
                /\ colorMap' = b.colorMap
       ELSE UNCHANGED <<steps, stepIdx, comparisons, swaps, colorMap>>
    /\ running' = ~running
    /\ p = bars
    /\ UNCHANGED <<bars, algo, finished, speed, sizeIdx, startBars, executed>>

\* SPACE without the else: after the shuffle of a finished sort the steps are
\* empty and the sort is not running, so it builds and starts at once
KeySpaceNoElse(p) ==
    /\ pc <= AT_SPACE
    /\ pc' = AT_SPACE + 1
    /\ IF finished
       THEN LET b == buildSteps(algo, p, [k \in 1..barCount |-> COL_DEFAULT],
                                barCount)
            IN  /\ bars' = p
                /\ startBars' = p
                /\ executed' = <<>>
                /\ finished' = FALSE
                /\ running' = TRUE
                /\ steps' = b.steps
                /\ stepIdx' = 0
                /\ comparisons' = b.comparisons
                /\ swaps' = b.swaps
                /\ colorMap' = b.colorMap
                /\ UNCHANGED <<algo, speed, sizeIdx>>
       ELSE /\ IF ~running /\ steps = <<>>
               THEN LET b == buildSteps(algo, bars, colorMap, barCount)
                    IN  /\ steps' = b.steps
                        /\ stepIdx' = 0
                        /\ comparisons' = b.comparisons
                        /\ swaps' = b.swaps
                        /\ colorMap' = b.colorMap
               ELSE UNCHANGED <<steps, stepIdx, comparisons, swaps, colorMap>>
            /\ running' = ~running
            /\ UNCHANGED <<bars, algo, finished, speed, sizeIdx, startBars, executed>>

\* if (IsKeyPressed(KEY_SPACE)) { finished ? shuffle : build-if-empty, toggle }
KeySpace(p) ==
    /\ pc <= AT_SPACE
    /\ pc' = AT_SPACE + 1
    /\ IF finished
       THEN /\ shuffle(barCount, p)
            /\ UNCHANGED <<algo, speed, sizeIdx>>
       ELSE /\ IF ~running /\ steps = <<>>
               THEN LET b == buildSteps(algo, bars, colorMap, barCount)
                    IN  /\ steps' = b.steps
                        /\ stepIdx' = 0
                        /\ comparisons' = b.comparisons
                        /\ swaps' = b.swaps
                        /\ colorMap' = b.colorMap
               ELSE UNCHANGED <<steps, stepIdx, comparisons, swaps, colorMap>>
            /\ running' = ~running
            /\ UNCHANGED <<bars, algo, finished, speed, sizeIdx, startBars, executed>>

\* if (IsKeyPressed(KEY_UP)) s.speed = std::min(10, s.speed + 1);
KeyUp ==
    /\ pc <= AT_UP
    /\ pc' = AT_UP + 1
    /\ speed' = Min(MAX_SPEED, speed + 1)
    /\ UNCHANGED <<bars, colorMap, algo, running, finished, sizeIdx,
                   comparisons, swaps, steps, stepIdx, startBars, executed>>

\* the DOWN handler without std::max
KeyDownNoClamp ==
    /\ pc <= AT_DOWN
    /\ pc' = AT_DOWN + 1
    /\ speed' = speed - 1
    /\ UNCHANGED <<bars, colorMap, algo, running, finished, sizeIdx,
                   comparisons, swaps, steps, stepIdx, startBars, executed>>

\* if (IsKeyPressed(KEY_DOWN)) s.speed = std::max(1, s.speed - 1);
KeyDown ==
    /\ pc <= AT_DOWN
    /\ pc' = AT_DOWN + 1
    /\ speed' = Max(MIN_SPEED, speed - 1)
    /\ UNCHANGED <<bars, colorMap, algo, running, finished, sizeIdx,
                   comparisons, swaps, steps, stepIdx, startBars, executed>>

\* the D handler clamping the index instead of testing it: at the largest
\* size it still reshuffles
KeyDClamped(p) ==
    /\ pc <= AT_D
    /\ pc' = AT_D + 1
    /\ IF ~running
       THEN /\ sizeIdx' = Min(sizeIdx + 1, SIZE_COUNT - 1)
            /\ p \in Perms(barCountOf(Min(sizeIdx + 1, SIZE_COUNT - 1)))
            /\ shuffle(barCountOf(Min(sizeIdx + 1, SIZE_COUNT - 1)), p)
       ELSE /\ p = bars
            /\ UNCHANGED <<bars, colorMap, running, finished, sizeIdx, comparisons,
                           swaps, steps, stepIdx, startBars, executed>>
    /\ UNCHANGED <<algo, speed>>

\* if (IsKeyPressed(KEY_D) && sizeIdx < SIZE_COUNT - 1 && !running) { ++; shuffle }
KeyD(p) ==
    /\ pc <= AT_D
    /\ pc' = AT_D + 1
    /\ IF sizeIdx < SIZE_COUNT - 1 /\ ~running
       THEN /\ sizeIdx' = sizeIdx + 1
            /\ p \in Perms(barCountOf(sizeIdx + 1))
            /\ shuffle(barCountOf(sizeIdx + 1), p)
       ELSE /\ p = bars
            /\ UNCHANGED <<bars, colorMap, running, finished, sizeIdx, comparisons,
                           swaps, steps, stepIdx, startBars, executed>>
    /\ UNCHANGED <<algo, speed>>

\* the A handler without the !s.running test
KeyANoRunningTest(p) ==
    /\ pc <= AT_A
    /\ pc' = AT_A + 1
    /\ IF sizeIdx > 0
       THEN /\ sizeIdx' = sizeIdx - 1
            /\ p \in Perms(barCountOf(sizeIdx - 1))
            /\ shuffle(barCountOf(sizeIdx - 1), p)
       ELSE /\ p = bars
            /\ UNCHANGED <<bars, colorMap, running, finished, sizeIdx, comparisons,
                           swaps, steps, stepIdx, startBars, executed>>
    /\ UNCHANGED <<algo, speed>>

\* if (IsKeyPressed(KEY_A) && sizeIdx > 0 && !running) { --; shuffle }
KeyA(p) ==
    /\ pc <= AT_A
    /\ pc' = AT_A + 1
    /\ IF sizeIdx > 0 /\ ~running
       THEN /\ sizeIdx' = sizeIdx - 1
            /\ p \in Perms(barCountOf(sizeIdx - 1))
            /\ shuffle(barCountOf(sizeIdx - 1), p)
       ELSE /\ p = bars
            /\ UNCHANGED <<bars, colorMap, running, finished, sizeIdx, comparisons,
                           swaps, steps, stepIdx, startBars, executed>>
    /\ UNCHANGED <<algo, speed>>

\* mutant: one lambda per frame, the cursor advanced by spf
ExecLoopSkip(r, sq, k, spf) ==
    IF k < spf /\ r.stepIdx < Len(sq)
    THEN [d        |-> RunStep(sq[r.stepIdx + 1], r.d),
          stepIdx  |-> Min(r.stepIdx + spf, Len(sq)),
          executed |-> Append(r.executed, r.stepIdx)]
    ELSE r

\* mutant: s.steps[s.stepIdx]() with the ++ forgotten until the loop ends
RECURSIVE ExecLoopRepeat(_, _, _, _)
ExecLoopRepeat(r, sq, k, spf) ==
    IF k < spf /\ r.stepIdx < Len(sq)
    THEN ExecLoopRepeat([d        |-> RunStep(sq[r.stepIdx + 1], r.d),
                         stepIdx  |-> r.stepIdx,
                         executed |-> Append(r.executed, r.stepIdx)],
                        sq, k + 1, spf)
    ELSE [r EXCEPT !.stepIdx = Min(@ + 1, Len(sq))]

\* the loop with k <= spf for k < spf
RECURSIVE ExecLoopOneMore(_, _, _, _)
ExecLoopOneMore(r, sq, k, spf) ==
    IF k <= spf /\ r.stepIdx < Len(sq)
    THEN ExecLoopOneMore([d        |-> RunStep(sq[r.stepIdx + 1], r.d),
                          stepIdx  |-> r.stepIdx + 1,
                          executed |-> Append(r.executed, r.stepIdx)],
                         sq, k + 1, spf)
    ELSE r

\* the loop with k < spf - 1 for k < spf
RECURSIVE ExecLoopOneLess(_, _, _, _)
ExecLoopOneLess(r, sq, k, spf) ==
    IF k < spf - 1 /\ r.stepIdx < Len(sq)
    THEN ExecLoopOneLess([d        |-> RunStep(sq[r.stepIdx + 1], r.d),
                          stepIdx  |-> r.stepIdx + 1,
                          executed |-> Append(r.executed, r.stepIdx)],
                         sq, k + 1, spf)
    ELSE r

\* for (k = 0; k < spf && s.stepIdx < s.steps.size(); k++) s.steps[s.stepIdx++]();
\* r = [d, stepIdx, executed]
RECURSIVE ExecLoop(_, _, _, _)
ExecLoop(r, sq, k, spf) ==
    IF k < spf /\ r.stepIdx < Len(sq)
    THEN ExecLoop([d        |-> RunStep(sq[r.stepIdx + 1], r.d),
                   stepIdx  |-> r.stepIdx + 1,
                   executed |-> Append(r.executed, r.stepIdx)],
                  sq, k + 1, spf)
    ELSE r

\* mutant: the finish test with > for >=
SequenceOverrun(idx, sq) == idx > Len(sq)

\* if (s.stepIdx >= s.steps.size())
SequenceExhausted(idx, sq) == idx >= Len(sq)

\* the advance block guarded by !s.finished alone
AdvanceIgnoringRunning ==
    /\ pc' = AT_ALGO(0)
    /\ IF ~finished
       THEN LET d0 == [bars |-> bars, colorMap |-> colorMap,
                       comparisons |-> comparisons, swaps |-> swaps]
                r  == ExecLoop([d |-> d0, stepIdx |-> stepIdx,
                                executed |-> executed],
                               steps, 0, SpfTable[speed])
                done == SequenceExhausted(r.stepIdx, steps)
            IN  /\ bars' = r.d.bars
                /\ comparisons' = r.d.comparisons
                /\ swaps' = r.d.swaps
                /\ stepIdx' = r.stepIdx
                /\ executed' = r.executed
                /\ colorMap' = IF done
                               THEN [k \in 1..Len(r.d.colorMap) |-> COL_SORTED]
                               ELSE r.d.colorMap
                /\ running' = IF done THEN FALSE ELSE running
                /\ finished' = IF done THEN TRUE ELSE finished
                /\ UNCHANGED <<algo, speed, sizeIdx, steps, startBars>>
       ELSE UNCHANGED <<bars, colorMap, algo, running, finished, speed, sizeIdx,
                        comparisons, swaps, steps, stepIdx, startBars, executed>>

\* the "advance sort steps" block, which ends the frame
Advance ==
    /\ pc' = AT_ALGO(0)
    /\ IF running /\ ~finished
       THEN LET d0 == [bars |-> bars, colorMap |-> colorMap,
                       comparisons |-> comparisons, swaps |-> swaps]
                r  == ExecLoop([d |-> d0, stepIdx |-> stepIdx,
                                executed |-> executed],
                               steps, 0, SpfTable[speed])
                done == SequenceExhausted(r.stepIdx, steps)
            IN  /\ bars' = r.d.bars
                /\ comparisons' = r.d.comparisons
                /\ swaps' = r.d.swaps
                /\ stepIdx' = r.stepIdx
                /\ executed' = r.executed
                /\ colorMap' = IF done
                               THEN [k \in 1..Len(r.d.colorMap) |-> COL_SORTED]
                               ELSE r.d.colorMap
                /\ running' = IF done THEN FALSE ELSE running
                /\ finished' = IF done THEN TRUE ELSE finished
                /\ UNCHANGED <<algo, speed, sizeIdx, steps, startBars>>
       ELSE UNCHANGED <<bars, colorMap, algo, running, finished, speed, sizeIdx,
                        comparisons, swaps, steps, stepIdx, startBars, executed>>

\* one block of the frame loop's body: a pressed key's handler, or the advance
PressAlgo == \E i \in 0..(ALGO_COUNT - 1) : \E p \in Perms(barCount) : KeyAlgo(i, p)
PressR == \E p \in Perms(barCount) : KeyR(p)
PressSpace == \E p \in Perms(barCount) : KeySpace(p)
PressD == \E n \in 1..MaxSize : \E p \in Perms(n) : KeyD(p)
PressA == \E n \in 1..MaxSize : \E p \in Perms(n) : KeyA(p)

Next ==
    \/ PressAlgo /\ UNCHANGED hist
    \/ PressR /\ UNCHANGED hist
    \/ PressSpace /\ UNCHANGED hist
    \/ KeyUp /\ UNCHANGED hist
    \/ KeyDown /\ UNCHANGED hist
    \/ PressD /\ UNCHANGED hist
    \/ PressA /\ UNCHANGED hist
    \/ Advance /\ UNCHANGED hist

Spec == Init /\ [][Next]_vars

\* ------------------------------------------------------------------------
\* The builders and their steps alone: buildSteps on any algorithm and any
\* permutation of 1..n, n <= MaxLen, then its lambdas invoked one at a time.
\* The controller's fields (running, finished, speed, sizeIdx, pc) play no
\* part here and keep their initial values; n is bars.size().
\* ------------------------------------------------------------------------

ReplayInit ==
    /\ algo \in 0..(ALGO_COUNT - 1)
    /\ \E n \in 1..MaxLen : bars \in Perms(n)
    /\ colorMap = [k \in 1..Len(bars) |-> COL_DEFAULT]
    /\ running = FALSE
    /\ finished = FALSE
    /\ speed = INIT_SPEED
    /\ sizeIdx = INIT_SIZE_IDX
    /\ comparisons = 0
    /\ swaps = 0
    /\ steps = <<>>
    /\ stepIdx = 0
    /\ pc = AT_ALGO(0)
    /\ startBars = bars
    /\ executed = <<>>
    /\ wasPaused = FALSE
    /\ speedChanged = FALSE

\* buildSteps(s) on the shuffled array
Generate ==
    /\ steps = <<>>
    /\ LET b == buildSteps(algo, bars, colorMap, Len(bars))
       IN  /\ steps' = b.steps
           /\ stepIdx' = 0
           /\ comparisons' = b.comparisons
           /\ swaps' = b.swaps
           /\ colorMap' = b.colorMap
    /\ UNCHANGED <<bars, algo, running, finished, speed, sizeIdx, pc,
                   startBars, executed>>

\* s.steps[s.stepIdx++]() once
Replay ==
    /\ stepIdx < Len(steps)
    /\ LET d0 == [bars |-> bars, colorMap |-> colorMap,
                  comparisons |-> comparisons, swaps |-> swaps]
           r  == ExecLoop([d |-> d0, stepIdx |-> stepIdx, executed |-> executed],
                          steps, 0, 1)
       IN  /\ bars' = r.d.bars
           /\ colorMap' = r.d.colorMap
           /\ comparisons' = r.d.comparisons
           /\ swaps' = r.d.swaps
           /\ stepIdx' = r.stepIdx
           /\ executed' = r.executed
    /\ UNCHANGED <<algo, running, finished, speed, sizeIdx, steps, pc, startBars>>

ReplayNext ==
    \/ Generate /\ UNCHANGED hist
    \/ Replay /\ UNCHANGED hist

SpecReplay == ReplayInit /\ [][ReplayNext]_vars

\* ------------------------------------------------------------------------
\* One run of the controller, from any idle state to Finished, with the keys
\* that do not reset (SPACE to play, pause and resume; UP and DOWN), and two
\* history variables recording whether the run was paused and whether its
\* speed was changed after the steps were built.
\* ------------------------------------------------------------------------

RunInit ==
    /\ algo \in 0..(ALGO_COUNT - 1)
    /\ speed \in MIN_SPEED..MAX_SPEED
    /\ sizeIdx \in 0..(SIZE_COUNT - 1)
    /\ bars \in Perms(barCountOf(sizeIdx))
    /\ colorMap = [k \in 1..Len(bars) |-> COL_DEFAULT]
    /\ running = FALSE
    /\ finished = FALSE
    /\ comparisons = 0
    /\ swaps = 0
    /\ steps = <<>>
    /\ stepIdx = 0
    /\ pc = AT_ALGO(0)
    /\ startBars = bars
    /\ executed = <<>>
    /\ wasPaused = FALSE
    /\ speedChanged = FALSE

RunSpace ==
    /\ ~finished
    /\ KeySpace(bars)
    /\ wasPaused' = (wasPaused \/ running)
    /\ UNCHANGED speedChanged

RunUp ==
    /\ KeyUp
    /\ speedChanged' = (speedChanged \/ (steps # <<>> /\ ~finished /\ speed' # speed))
    /\ UNCHANGED wasPaused

RunDown ==
    /\ KeyDown
    /\ speedChanged' = (speedChanged \/ (steps # <<>> /\ ~finished /\ speed' # speed))
    /\ UNCHANGED wasPaused

RunAdvance == Advance /\ UNCHANGED hist

RunNext == RunSpace \/ RunUp \/ RunDown \/ RunAdvance

SpecRun == RunInit /\ [][RunNext]_vars

\* ------------------------------------------------------------------------
\* Long runs: one run on the reversed array of each size up to MaxRunLen,
\* from the state SPACE leaves behind (steps built, running) to its end;
\* only the speed keys are pressed
\* ------------------------------------------------------------------------

\* the array n, n - 1, ..., 1, one of the outcomes of shuffle
RECURSIVE Reversed(_)
Reversed(n) == IF n = 0 THEN <<>> ELSE <<n>> \o Reversed(n - 1)

TickInit ==
    /\ algo \in 0..(ALGO_COUNT - 1)
    /\ speed \in MIN_SPEED..MAX_SPEED
    /\ sizeIdx = INIT_SIZE_IDX
    /\ \E n \in 1..MaxRunLen :
           /\ bars = Reversed(n)
           /\ LET b == buildSteps(algo, Reversed(n),
                                  [k \in 1..n |-> COL_DEFAULT], n)
              IN  /\ steps = b.steps
                  /\ comparisons = b.comparisons
                  /\ swaps = b.swaps
                  /\ colorMap = b.colorMap
    /\ running = TRUE
    /\ finished = FALSE
    /\ stepIdx = 0
    /\ pc = AT_SPACE + 1
    /\ startBars = bars
    /\ executed = <<>>
    /\ wasPaused = FALSE
    /\ speedChanged = FALSE

TickUp == KeyUp /\ UNCHANGED hist

TickDown == KeyDown /\ UNCHANGED hist

TickAdvance == Advance /\ UNCHANGED hist

TickNext == TickUp \/ TickDown \/ TickAdvance

SpecTick == TickInit /\ [][TickNext]_vars

\* ------------------------------------------------------------------------
\* Properties
\* ------------------------------------------------------------------------

\* values[k] = k + 1 for every 0-based k
SortedAsc(v) == \A k \in 1..Len(v) : v[k] = k

\* <<0, 1, ..., n - 1>>
UpTo(n) == [k \in 1..n |-> k - 1]

AllTagged(cm, c) == \A k \in 1..Len(cm) : cm[k] = c

\* every lambda of sq from the k-th on, once each and in order, on dataset d
RECURSIVE RunAll(_, _, _)
RunAll(d, sq, k) ==
    IF k > Len(sq) THEN d ELSE RunAll(RunStep(sq[k], d), sq, k + 1)

\* the run nobody interrupts: algorithm a played on the shuffled array b, all
\* its steps executed, then the controller's finish handling
UninterruptedRun(a, b) ==
    LET n == Len(b)
        g == buildSteps(a, b, [k \in 1..n |-> COL_DEFAULT], n)
        d == RunAll([bars |-> b, colorMap |-> g.colorMap,
                     comparisons |-> g.comparisons, swaps |-> g.swaps],
                    g.steps, 1)
    IN  [bars        |-> d.bars,
         colorMap    |-> [k \in 1..n |-> COL_SORTED],
         comparisons |-> d.comparisons,
         swaps       |-> d.swaps,
         stepIdx     |-> Len(g.steps)]

\* C1: for each of the six algorithms, every size and every initial
\* permutation, once the generated steps have all been executed in order the
\* values are sorted ascending (values[k] = k + 1).
C1_SortedAtCompletion ==
    (steps # <<>> /\ stepIdx = Len(steps))
        => (Len(bars) = Len(startBars) /\ SortedAsc(bars))

\* merge sort on a size that is no power of two, from an unsorted array, done
C1_Witness ==
    /\ algo = MERGE
    /\ startBars = <<3, 1, 2>>
    /\ steps # <<>>
    /\ stepIdx = Len(steps)

\* C2: a run that is paused and resumed (no reset in between) reaches
\* Finished with the values, comparisons, swaps and cursor of the
\* uninterrupted run, every step executed once and none skipped.
C2_PauseResumeSameFinal ==
    finished =>
        LET u == UninterruptedRun(algo, startBars)
        IN  /\ bars = u.bars
            /\ comparisons = u.comparisons
            /\ swaps = u.swaps
            /\ stepIdx = u.stepIdx
            /\ executed = UpTo(Len(steps))

\* a quicksort run that was paused on its way and has finished
C2_Witness ==
    /\ finished
    /\ wasPaused
    /\ algo = QUICK
    /\ startBars = <<3, 2, 1>>

\* C3: the state at Finished (values, annotations, comparisons, swaps,
\* cursor) is the same whatever the speed level and whatever speed changes
\* were made during the run.
C3_SpeedIndependentFinal ==
    finished =>
        LET u == UninterruptedRun(algo, startBars)
        IN  <<bars, colorMap, comparisons, swaps, stepIdx>>
                = <<u.bars, u.colorMap, u.comparisons, u.swaps, u.stepIdx>>

\* a heapsort run whose speed was changed on its way and has finished
C3_Witness ==
    /\ finished
    /\ speedChanged
    /\ algo = HEAP
    /\ Len(bars) = MaxSize

\* C4: in every reachable state (so at every step boundary) values is a
\* permutation of 1..N, the set the last shuffle assigned: nothing is
\* duplicated or lost.
C4_ValuesArePermutation ==
    /\ IsPerm(bars, barCount)
    /\ Range(bars) = Range(startBars)

\* insertion sort between two of its steps, having moved something
C4_Witness ==
    /\ algo = INSERTION
    /\ 0 < stepIdx
    /\ stepIdx < Len(steps)
    /\ bars # startBars

\* C5 as stated: finished is true iff the cursor equals the length of the
\* sequence, an unmaterialized sequence counting as length 0.
C5_FinishedIffCursorAtLength ==
    finished <=> (stepIdx = Len(steps))

\* C5, amended: finished is true iff the sequence has been generated and the
\* cursor equals its length.
C5_FinishedIffExhausted ==
    finished <=> (steps # <<>> /\ stepIdx = Len(steps))

\* the cursor has just reached the end of a generated sequence
C5_Witness ==
    /\ finished
    /\ steps # <<>>
    /\ stepIdx = Len(steps)
    /\ pc = AT_ALGO(0)

\* C6: whenever finished is true every annotation is Sorted and values is
\* sorted ascending, also after further commands that do not reset.
C6_FinishedAllSorted ==
    finished => (AllTagged(colorMap, COL_SORTED) /\ SortedAsc(bars))

\* finished, and a speed key has been handled since
C6_Witness ==
    /\ finished
    /\ pc = AT_DOWN + 1
    /\ speed # INIT_SPEED

\* C7: finished implies not running, in every reachable state.
C7_FinishedNotRunning ==
    ~(finished /\ running)

\* a run that SPACE started has finished and is not running
C7_Witness ==
    /\ finished
    /\ ~running
    /\ algo = SELECTION
    /\ executed # <<>>

\* C8: the steps invoked since the last reset are those at indices
\* 0, 1, ..., cursor - 1, in that order, each once: the step executed is the
\* one at the cursor, and the cursor then moves on by exactly one.
C8_StepsInOrderOnce ==
    /\ executed = UpTo(stepIdx)
    /\ stepIdx <= Len(steps)

\* a run in progress, several steps in and more to come
C8_Witness ==
    /\ running
    /\ stepIdx >= 2
    /\ stepIdx < Len(steps)

\* C9: comparisons and swaps are both zero right after a sequence is
\* generated, before any step has executed, and right after every reset.
C9_CountersZeroBeforeFirstStep ==
    executed = <<>> => (comparisons = 0 /\ swaps = 0)

\* C10: from one step boundary to the next comparisons and swaps are
\* non-negative and do not decrease; they go down only in a reset, to zero.
C10_CountersMonotone ==
    [][/\ comparisons' >= 0
       /\ swaps' >= 0
       /\ (comparisons' < comparisons \/ swaps' < swaps)
              => (steps' = <<>> /\ stepIdx' = 0 /\ comparisons' = 0 /\ swaps' = 0)
      ]_vars

\* a selection sort in progress that has counted comparisons and swaps
C10_Witness ==
    /\ algo = SELECTION
    /\ comparisons > 0
    /\ swaps > 0
    /\ 1 < stepIdx
    /\ stepIdx < Len(steps)


\* ------------------------------------------------------------------------
\* the partition lambdas of a quicksort sequence (all but the closing step)
PartitionCount(sq) == Len(sq) - 1

\* the shadow array of buildQuick after its first k partitions: arr starts as
\* a copy of the bars, the k-th lambda captured arr as it was before the k-th
\* partition
QuickShadowAfter(sq, b, k) ==
    IF k = 0 THEN b
    ELSE ShadowAfterPartition(sq[k].snap, sq[k].a, sq[k].b)

\* C11: for quicksort, for every K from 0 to the number of partition steps,
\* the live values after the first K steps are the shadow array of the
\* generator after its first K partitions (which is also the array the
\* (K+1)-th partition step captured)
C11_QuickLiveEqualsShadow ==
    (algo = QUICK /\ steps # <<>> /\ stepIdx <= PartitionCount(steps)) =>
        /\ bars = QuickShadowAfter(steps, startBars, stepIdx)
        /\ stepIdx < PartitionCount(steps) => bars = steps[stepIdx + 1].snap

\* two partitions executed, more to come, and the values have moved
C11_Witness ==
    /\ algo = QUICK
    /\ steps # <<>>
    /\ stepIdx = 2
    /\ stepIdx < PartitionCount(steps)
    /\ bars # startBars


\* ------------------------------------------------------------------------
\* the shadow array of buildHeap at the point where its k-th lambda was
\* emitted: heapify swaps arr[i] and arr[lg] and then pushes its lambda, the
\* three lambdas of buildHeap capture arr as it is when they are pushed, and
\* the closing lambda is pushed after the shadow run is over
RECURSIVE HeapShadowAfter(_, _, _)
HeapShadowAfter(sq, b, k) ==
    IF k = 0 THEN b
    ELSE LET st == sq[k]
         IN  CASE st.op = "heapColor" ->
                      SwapAt(HeapShadowAfter(sq, b, k - 1), st.a, st.b)
               [] st.op = "sortAll" -> HeapShadowAfter(sq, b, k - 1)
               [] OTHER -> st.snap

\* the lambdas that carry a copy of the shadow array
CarriesSnapshot(st) == st.op \in {"heapSnap", "heapExtract", "heapFixed"}

\* C12: for heapsort, every step emitted for a sub-operation of the shadow
\* run carries a snapshot of the shadow array, and after each such step has
\* been executed the live values equal the shadow array at the point where
\* the step was emitted
C12_HeapLiveEqualsShadow ==
    (algo = HEAP /\ steps # <<>>) =>
        /\ \A k \in 1..(Len(steps) - 1) : CarriesSnapshot(steps[k])
        /\ (0 < stepIdx /\ stepIdx < Len(steps)) =>
               bars = HeapShadowAfter(steps, startBars, stepIdx)


\* ------------------------------------------------------------------------
\* bubble sort of [3,1,4,2] has run to completion
BubbleExampleDone ==
    /\ algo = BUBBLE
    /\ startBars = <<3, 1, 4, 2>>
    /\ steps # <<>>
    /\ stepIdx = Len(steps)

\* C13 as stated: bubble sort of [3,1,4,2], run to completion, yields
\* [1,2,3,4] with comparisons = 6 and swaps = 2
C13_BubbleExampleTwoSwaps ==
    BubbleExampleDone => (bars = <<1, 2, 3, 4>> /\ comparisons = 6 /\ swaps = 2)

\* C13 (amended): bubble sort of [3,1,4,2], run to completion, yields
\* [1,2,3,4] with comparisons = 6 and swaps = 3, one swap per inversion
C13_BubbleExample ==
    BubbleExampleDone => (bars = <<1, 2, 3, 4>> /\ comparisons = 6 /\ swaps = 3)

C13_Witness == BubbleExampleDone /\ Len(executed) = Len(steps)


\* ------------------------------------------------------------------------
\* C14: with one bar, whichever algorithm is selected, the generated sequence
\* is a single step that leaves the values alone, the first tick of the run
\* finishes it, and the counters stay 0, the values [1], the bar Sorted
C14_SizeOne ==
    barCount = 1 =>
        /\ bars = <<1>>
        /\ comparisons = 0
        /\ swaps = 0
        /\ steps # <<>> =>
               /\ Len(steps) = 1
               /\ RunStep(steps[1], [bars |-> bars, colorMap |-> colorMap,
                                     comparisons |-> comparisons,
                                     swaps |-> swaps]).bars = bars
        /\ (steps # <<>> /\ pc = AT_ALGO(0)) => finished
        /\ finished => colorMap = <<COL_SORTED>>

\* a one-bar heapsort run that has finished
C14_Witness ==
    /\ barCount = 1
    /\ algo = HEAP
    /\ finished
    /\ executed = <<0>>


\* ------------------------------------------------------------------------
\* C15: the number of steps per tick is 1 at speed 1, at least 1 at every
\* speed the controller can hold, and does not decrease when the speed goes up
C15_SpeedCurve ==
    /\ SpfTable[speed] >= 1
    /\ speed = 1 => SpfTable[speed] = 1
    /\ speed < MAX_SPEED => SpfTable[speed] <= SpfTable[speed + 1]

\* a run at speed 1 whose first tick has executed its one step
C15_Witness ==
    /\ speed = 1
    /\ ~speedChanged
    /\ ~wasPaused
    /\ running
    /\ executed = <<0>>


\* ------------------------------------------------------------------------
\* the indices idx, idx + 1, ..., idx + k - 1
IndicesFrom(idx, k) == [m \in 1..k |-> idx + m - 1]

\* the step that is being taken is the "advance sort steps" block of a frame
\* in which the sort is running (no key handler ends with pc at the top)
RunningTick == pc' = AT_ALGO(0) /\ running /\ ~finished

\* C16 as stated: at speed 10 the number of steps a tick executes is about 77
\* (77 give or take a tenth), or all that remain when fewer remain
C16_TopSpeedAbout77 ==
    [][(RunningTick /\ speed = MAX_SPEED) =>
           \E m \in 70..84 : stepIdx' = Min(stepIdx + m, Len(steps))]_vars

\* C16 (amended): at speed 10 a tick executes 22 steps, round(2.8^3), when
\* that many remain
C16_TopSpeed22 ==
    [][(RunningTick /\ speed = MAX_SPEED /\ Len(steps) - stepIdx >= 22) =>
           /\ stepIdx' = stepIdx + 22
           /\ executed' = executed \o IndicesFrom(stepIdx, 22)]_vars

\* the first tick of a run at speed 10 has executed steps 0..21 and the run
\* goes on
C16_Witness ==
    /\ speed = MAX_SPEED
    /\ running
    /\ executed = IndicesFrom(0, 22)
    /\ stepIdx < Len(steps)


\* ------------------------------------------------------------------------
\* C17: a tick while running executes exactly min(stepsPerTick(speed),
\* length - cursor) steps, the next ones in order, at the speed held when the
\* tick is taken; if the cursor is then at the length the same tick sets
\* finished, clears running and tags every bar Sorted, otherwise the run goes on
C17_TickExecutesMin ==
    [][RunningTick =>
           LET m == Min(SpfTable[speed], Len(steps) - stepIdx)
           IN  /\ stepIdx' = stepIdx + m
               /\ executed' = executed \o IndicesFrom(stepIdx, m)
               /\ IF stepIdx' = Len(steps)
                  THEN finished' /\ ~running' /\ AllTagged(colorMap', COL_SORTED)
                  ELSE ~finished' /\ running']_vars

\* a bubble sort of 8 bars finished by a tick at a speed whose budget does
\* not divide the 29 steps
C17_Witness ==
    /\ finished
    /\ algo = BUBBLE
    /\ Len(steps) = 29
    /\ stepIdx = 29
    /\ speed = 7


\* ------------------------------------------------------------------------
\* C18: the advance block of a frame in which the sort is not running (idle,
\* paused or finished) leaves values, annotations, counters, cursor, running
\* and finished as they are, and invokes no step
C18_TickNotRunningNoEffect ==
    [][(pc' = AT_ALGO(0) /\ ~running) =>
           UNCHANGED <<bars, colorMap, comparisons, swaps, stepIdx, running,
                       finished, steps, executed>>]_vars

\* paused in mid-run, at the top of the frame that follows the pause
C18_Witness ==
    /\ pc = AT_ALGO(0)
    /\ ~running
    /\ ~finished
    /\ 0 < stepIdx
    /\ stepIdx < Len(steps)


\* ------------------------------------------------------------------------
\* the step that is being taken is the handler of algorithm key i (it alone
\* leaves pc just after the test of that key)
AlgoKeyStep(i) == pc' = AT_ALGO(i) + 1 /\ pc <= AT_ALGO(i)

\* C19: the handler of an algorithm key, in whatever state it is taken
\* (running included, the current algorithm included), leaves running and
\* finished false, the sequence empty, the cursor and both counters 0, every
\* annotation Default, the values a permutation of 1..N, and algo the key's
C19_AlgoKeyResets ==
    [][\A i \in 0..(ALGO_COUNT - 1) :
           AlgoKeyStep(i) =>
               /\ algo' = i
               /\ ~running'
               /\ ~finished'
               /\ steps' = <<>>
               /\ stepIdx' = 0
               /\ comparisons' = 0
               /\ swaps' = 0
               /\ Len(colorMap') = barCount
               /\ AllTagged(colorMap', COL_DEFAULT)
               /\ IsPerm(bars', barCount)]_vars

\* just after key 6 was handled
C19_Witness ==
    /\ pc = AT_ALGO(HEAP) + 1
    /\ algo = HEAP
    /\ steps = <<>>
    /\ ~running
    /\ ~finished


\* ------------------------------------------------------------------------
\* the step that is being taken is the SPACE handler
SpaceStep == pc' = AT_SPACE + 1 /\ pc <= AT_SPACE

\* C20: SPACE pressed when finished shuffles and resets and does not play:
\* it leaves running and finished false, the sequence empty, the cursor and
\* the counters 0, the annotations Default and the values a permutation, so
\* starting a run takes another SPACE
C20_SpaceWhenFinishedResets ==
    [][(SpaceStep /\ finished) =>
           /\ ~running'
           /\ ~finished'
           /\ steps' = <<>>
           /\ stepIdx' = 0
           /\ comparisons' = 0
           /\ swaps' = 0
           /\ executed' = <<>>
           /\ AllTagged(colorMap', COL_DEFAULT)
           /\ IsPerm(bars', barCount)]_vars

\* just after SPACE was handled with nothing built: from idle, running or
\* paused SPACE leaves a sequence behind, so the sort had finished
C20_Witness ==
    /\ pc = AT_SPACE + 1
    /\ steps = <<>>
    /\ ~running
    /\ ~finished


\* ------------------------------------------------------------------------
\* the step that is being taken is the handler of the D key, of the A key
SizeUpStep == pc' = AT_D + 1 /\ pc <= AT_D
SizeDownStep == pc' = AT_A + 1 /\ pc <= AT_A

\* what shuffle leaves behind for the size list entry si
ResetTo(si) ==
    /\ sizeIdx' = si
    /\ ~running'
    /\ ~finished'
    /\ steps' = <<>>
    /\ stepIdx' = 0
    /\ comparisons' = 0
    /\ swaps' = 0
    /\ Len(colorMap') = barCountOf(si)
    /\ AllTagged(colorMap', COL_DEFAULT)
    /\ IsPerm(bars', barCountOf(si))

\* C21: the A or D handler taken while running changes nothing (size, values,
\* annotations, counters, sequence, cursor, running, finished); taken while
\* not running and not at that end of the size list it moves to the
\* neighbouring size and resets everything
C21_SizeKeys ==
    [][/\ ((SizeUpStep \/ SizeDownStep) /\ running) =>
              UNCHANGED <<sizeIdx, bars, colorMap, comparisons, swaps, steps,
                          stepIdx, running, finished>>
       /\ (SizeUpStep /\ ~running /\ sizeIdx < SIZE_COUNT - 1) =>
              ResetTo(sizeIdx + 1)
       /\ (SizeDownStep /\ ~running /\ sizeIdx > 0) =>
              ResetTo(sizeIdx - 1)]_vars

\* just after A was handled in mid-run with a smaller size available
C21_Witness ==
    /\ pc = AT_A + 1
    /\ running
    /\ sizeIdx > 0
    /\ 0 < stepIdx


\* ------------------------------------------------------------------------
\* C22: a running sort reaches finished if ticks keep coming and no key is
\* pressed, because the steps that remain, Len(steps) - stepIdx, are finitely
\* many and every tick while running, at every speed, executes at least one
\* of them, never overruns the sequence, and sets finished as soon as none
\* remains; until then the sort stays running
C22_RunTerminates ==
    [][RunningTick =>
           /\ stepIdx < Len(steps)
           /\ stepIdx' > stepIdx
           /\ stepIdx' <= Len(steps)
           /\ IF stepIdx' = Len(steps) THEN finished' ELSE running' /\ ~finished']_vars

\* a heapsort of the largest array that ran to its end at the lowest speed
C22_Witness ==
    /\ finished
    /\ algo = HEAP
    /\ speed = MIN_SPEED
    /\ sizeIdx = SIZE_COUNT - 1
    /\ Len(executed) = Len(steps)


\* ------------------------------------------------------------------------
\* the size a sequence was generated for: every builder ends with a lambda
\* that captures n
GeneratedFor(sq) == sq[Len(sq)].a

\* the lowest and the highest 0-based index of bars and colorMap that a
\* lambda can read or write, from its captured values
StepLo(st) ==
    CASE st.op = "bubble"      -> Min(st.a, st.c - st.b - 1)
      [] st.op = "selection"   -> 0
      [] st.op = "insertion"   -> 0
      [] st.op = "merge"       -> st.a
      [] st.op = "partition"   -> st.a
      [] st.op = "heapColor"   -> Min(st.a, st.b)
      [] st.op = "heapSnap"    -> 0
      [] st.op = "heapExtract" -> 0
      [] st.op = "heapFixed"   -> Min(st.a, st.b - 1)
      [] OTHER                 -> 0

StepHi(st) ==
    CASE st.op = "bubble"      -> Max(st.a + 1, st.c - 1)
      [] st.op = "selection"   -> Max(st.a, st.b - 1)
      [] st.op = "insertion"   -> st.a
      [] st.op = "merge"       -> st.c
      [] st.op = "partition"   -> st.b
      [] st.op = "heapColor"   -> Max(st.a, st.b)
      [] st.op = "heapSnap"    -> Len(st.snap) - 1
      [] st.op = "heapExtract" -> Max(st.b - 1, Len(st.snap) - 1)
      [] st.op = "heapFixed"   -> Max(st.b - 1, Len(st.snap) - 1)
      [] OTHER                 -> st.a - 1

\* a lambda that assigns its snapshot to s.bars keeps the size of s.bars
SnapFits(st, n) == CarriesSnapshot(st) => Len(st.snap) = n

\* C23: whatever keys were pressed before, whenever a sequence exists (so
\* whenever a step can execute) bars and colorMap have the size the sequence
\* was generated for, and every index a step of the sequence reads or writes
\* lies in [0, N)
C23_StepsFitDataset ==
    steps # <<>> =>
        LET N == Len(bars)
        IN  /\ N = barCount
            /\ Len(colorMap) = N
            /\ GeneratedFor(steps) = N
            /\ \A k \in 1..Len(steps) :
                   /\ 0 <= StepLo(steps[k])
                   /\ StepLo(steps[k]) <= StepHi(steps[k])
                   /\ StepHi(steps[k]) < N
                   /\ SnapFits(steps[k], N)

\* a heapsort in mid-run at a size reached by a size key
C23_Witness ==
    /\ algo = HEAP
    /\ sizeIdx # INIT_SIZE_IDX
    /\ barCount > 1
    /\ running
    /\ 0 < stepIdx
    /\ stepIdx < Len(steps)


\* ------------------------------------------------------------------------
\* paused: a sequence exists, the sort is neither running nor finished
Paused == steps # <<>> /\ ~running /\ ~finished

\* C24: the sequence is generated once per run, by SPACE pressed in idle and
\* before any step has executed; no step of the program alters an existing
\* sequence other than by the reset that empties it (so pause, resume, speed
\* keys and ticks leave it alone and its length is constant between two
\* resets); resuming from paused changes running and nothing else
C24_GeneratedOnce ==
    [][/\ (steps = <<>> /\ steps' # <<>>) =>
              /\ SpaceStep
              /\ ~running /\ ~finished
              /\ stepIdx = 0 /\ executed = <<>>
              /\ steps' = buildSteps(algo, bars, colorMap, barCount).steps
              /\ stepIdx' = 0 /\ executed' = <<>>
              /\ running'
       /\ (steps # <<>> /\ steps' # <<>>) => steps' = steps
       /\ (SpaceStep /\ Paused) =>
              /\ running'
              /\ UNCHANGED <<bars, colorMap, algo, finished, speed, sizeIdx,
                             comparisons, swaps, steps, stepIdx, executed>>]_vars

\* just after SPACE resumed a run that had executed steps
C24_Witness ==
    /\ pc = AT_SPACE + 1
    /\ running
    /\ 0 < stepIdx
    /\ stepIdx < Len(steps)


\* ------------------------------------------------------------------------
\* the merges of a bottom-up merge sort of n values: at width w the pairs of
\* runs start at 0, 2w, 4w, ... and a pair is merged when its right run is
\* not empty, that is when its start is below n - w
RECURSIVE MergeCount(_, _)
MergeCount(w, n) ==
    IF w >= n THEN 0
    ELSE ((n - w) + 2 * w - 1) \div (2 * w) + MergeCount(2 * w, n)

\* the sequence buildSteps would generate for algorithm a on the values p
SequenceFor(a, p) ==
    buildSteps(a, p, [k \in 1..Len(p) |-> COL_DEFAULT], Len(p)).steps

\* C25: for bubble, selection, insertion and merge the sequence is the same
\* (same steps, same captured indices) for every permutation of a size N,
\* with N(N-1)/2 + 1, N, N and merges + 1 steps; for quick and heap the
\* number of steps differs between permutations (of any size from 3 on)
C25_ScheduleDependsOnSizeOnly ==
    (steps # <<>> /\ stepIdx = 0) =>
        LET N == Len(bars)
        IN  /\ algo = BUBBLE => Len(steps) = (N * (N - 1)) \div 2 + 1
            /\ algo = SELECTION => Len(steps) = N
            /\ algo = INSERTION => Len(steps) = N
            /\ algo = MERGE => Len(steps) = MergeCount(1, N) + 1
            /\ algo \in {BUBBLE, SELECTION, INSERTION, MERGE} =>
                   \A p \in Perms(N) : SequenceFor(algo, p) = steps
            /\ (algo \in {QUICK, HEAP} /\ N >= 3) =>
                   \E p \in Perms(N) : Len(SequenceFor(algo, p)) # Len(steps)

\* a merge sort sequence generated for four shuffled bars
C25_Witness ==
    /\ algo = MERGE
    /\ Len(bars) = 4
    /\ ~SortedAsc(bars)
    /\ stepIdx = 0
    /\ Len(steps) = 4


\* ------------------------------------------------------------------------
\* the dataset the lambdas run on, as it is now
Dataset ==
    [bars |-> bars, colorMap |-> colorMap, comparisons |-> comparisons,
     swaps |-> swaps]

\* C26: every generated sequence, for every algorithm and size from 1 on, has
\* at least one step; its last step, run on whatever the dataset holds, tags
\* every bar Sorted, and run a second time changes nothing; in particular
\* once the sequence has been executed, running the last step again leaves
\* the dataset as it is
C26_ClosingStepIdempotent ==
    steps # <<>> =>
        LET last == steps[Len(steps)]
            d1   == RunStep(last, Dataset)
            d2   == RunStep(last, d1)
        IN  /\ Len(steps) >= 1
            /\ Len(d1.colorMap) = Len(bars)
            /\ AllTagged(d1.colorMap, COL_SORTED)
            /\ d2 = d1
            /\ stepIdx = Len(steps) => d1 = Dataset

\* a quicksort sequence of the largest array executed to its end
C26_Witness ==
    /\ algo = QUICK
    /\ Len(bars) = MaxLen
    /\ steps # <<>>
    /\ stepIdx = Len(steps)
    /\ AllTagged(colorMap, COL_SORTED)


\* ------------------------------------------------------------------------
\* the steps sq[idx + 1], sq[idx + 2], ... run on d one after the other never
\* change the value at the (1-based) position k
RECURSIVE KeptBy(_, _, _, _)
KeptBy(d, sq, idx, k) ==
    IF idx >= Len(sq) THEN TRUE
    ELSE LET d1 == RunStep(sq[idx + 1], d)
         IN  d1.bars[k] = d.bars[k] /\ KeptBy(d1, sq, idx + 1, k)

\* C27: at every step boundary of a run, a bar tagged Sorted holds its final
\* value (the source's index k holds k + 1) and no later step of the run
\* changes the value at that index
C27_SortedTagMeansFinal ==
    steps # <<>> =>
        \A k \in 1..Len(bars) :
            colorMap[k] = COL_SORTED =>
                /\ bars[k] = k
                /\ KeptBy(Dataset, steps, stepIdx, k)


\* ------------------------------------------------------------------------
\* the step that is being taken is the handler of the UP key, of the DOWN key
SpeedUpStep == pc' = AT_UP + 1 /\ pc <= AT_UP
SpeedDownStep == pc' = AT_DOWN + 1 /\ pc <= AT_DOWN

\* C28: in every reachable state the cursor is between 0 and the length of
\* the sequence and the speed is one of 1..10; UP at speed 10 and DOWN at
\* speed 1 leave the speed as it is
C28_CursorAndSpeedInRange ==
    /\ [](/\ 0 <= stepIdx
          /\ stepIdx <= Len(steps)
          /\ speed \in 1..10)
    /\ [][/\ (SpeedUpStep /\ speed = 10) => speed' = speed
          /\ (SpeedDownStep /\ speed = 1) => speed' = speed]_vars

\* DOWN was just handled in a run whose speed has been 1 throughout
C28_Witness ==
    /\ pc = AT_DOWN + 1
    /\ speed = MIN_SPEED
    /\ ~speedChanged
    /\ running
    /\ 0 < stepIdx


\* ------------------------------------------------------------------------
\* C29: for quick and heap, on every permutation, once every step but the
\* closing one has executed the values are already in ascending order, and
\* the std::sort of the closing step changes none of them
C29_SortedBeforeClosingSort ==
    (algo \in {QUICK, HEAP} /\ steps # <<>> /\ stepIdx = Len(steps) - 1) =>
        /\ SortedAsc(bars)
        /\ RunStep(steps[Len(steps)], Dataset).bars = bars

\* a heapsort of a shuffled largest array with only the closing step left
C29_Witness ==
    /\ algo = HEAP
    /\ Len(bars) = MaxLen
    /\ ~SortedAsc(startBars)
    /\ steps # <<>>
    /\ stepIdx = Len(steps) - 1


\* ------------------------------------------------------------------------
\* the step that is being taken generates the sequence; executes, alone, the
\* step under the cursor
GenerationStep == steps = <<>> /\ steps' # <<>>
PlaybackOf(op) ==
    /\ steps # <<>>
    /\ steps' = steps
    /\ stepIdx' = stepIdx + 1
    /\ steps[stepIdx + 1].op = op

\* C30: the counters are moved by the steps as they execute, not by the
\* generation of the sequence; in particular for heapsort generating the
\* sequence leaves comparisons and swaps as they are, and executing the step
\* of a root/tail swap counts that swap
C30_CountersGrowDuringPlayback ==
    [][/\ GenerationStep => (comparisons' = 0 /\ swaps' = 0)
       /\ PlaybackOf("heapExtract") => swaps' = swaps + 1]_vars


\* ------------------------------------------------------------------------
\* C31: executing a lambda pushed inside heapify changes the annotations only
\* (all Default but the two indices of the swap it stands for) and leaves the
\* values and both counters as they are, so that afterwards, until the next
\* snapshot lambda runs, the live values differ from the shadow array
C31_HeapifyStepColoursOnly ==
    [][PlaybackOf("heapColor") =>
           /\ UNCHANGED <<bars, comparisons, swaps>>
           /\ colorMap' = [k \in 1..Len(colorMap) |->
                               IF k = steps[stepIdx + 1].b + 1 THEN COL_COMPARE
                               ELSE IF k = steps[stepIdx + 1].a + 1 THEN COL_SWAP
                               ELSE COL_DEFAULT]
           /\ bars' # HeapShadowAfter(steps, startBars, stepIdx')]_vars

\* a heapify lambda has just run on the largest array
C31_Witness ==
    /\ algo = HEAP
    /\ Len(bars) = MaxLen
    /\ 0 < stepIdx
    /\ steps[stepIdx].op = "heapColor"
    /\ colorMap[steps[stepIdx].a + 1] = COL_SWAP


\* ------------------------------------------------------------------------
\* the number of inversions of v: pairs of positions in the wrong order
Inversions(v) ==
    Cardinality({pr \in (1..Len(v)) \X (1..Len(v)) :
                     pr[1] < pr[2] /\ v[pr[1]] > v[pr[2]]})

\* the sequence has been executed to its end
RunComplete == steps # <<>> /\ stepIdx = Len(steps)

\* C32: a bubble sort of any permutation of N values ends with comparisons =
\* N(N-1)/2 (every pass runs in full, there is no early exit) and swaps = the
\* number of inversions of the permutation it started from
C32_BubbleCounts ==
    (algo = BUBBLE /\ RunComplete) =>
        LET N == Len(bars)
        IN  /\ comparisons = (N * (N - 1)) \div 2
            /\ swaps = Inversions(startBars)

\* a bubble sort of the reversed largest array has completed
C32_Witness ==
    /\ algo = BUBBLE
    /\ RunComplete
    /\ startBars = Reversed(MaxLen)
    /\ swaps > 0


\* ------------------------------------------------------------------------
\* C33: in an insertion sort the two counters are equal at every step
\* boundary (a comparison is counted only together with the shift it leads
\* to; the comparison that ends the inner loop is not counted), and at
\* completion both are the number of inversions of the initial permutation
C33_InsertionCounts ==
    algo = INSERTION =>
        /\ comparisons = swaps
        /\ RunComplete => swaps = Inversions(startBars)

\* an insertion sort of the largest array in mid-run, shifts already counted
C33_Witness ==
    /\ algo = INSERTION
    /\ Len(bars) = MaxLen
    /\ 0 < stepIdx
    /\ stepIdx < Len(steps) - 1
    /\ swaps >= 2


\* ------------------------------------------------------------------------
\* the top of the frame loop's body, before the first key test
FrameBoundary == pc = AT_ALGO(0)

\* idle: nothing has been played since the last reset (no step has executed,
\* the sort is neither running nor finished, cursor and counters are 0)
Idle ==
    /\ executed = <<>>
    /\ ~running
    /\ ~finished
    /\ stepIdx = 0
    /\ comparisons = 0
    /\ swaps = 0

\* C34: at every frame boundary the sequence is empty exactly when the
\* controller is idle; running implies a non-empty sequence with the cursor
\* short of its end; and a non-empty sequence is the one buildSteps generates
\* for the selected algorithm on the permutation left by the last reset,
\* whose size is the current size
C34_SequenceMatchesState ==
    FrameBoundary =>
        /\ steps = <<>> <=> Idle
        /\ running => (steps # <<>> /\ stepIdx < Len(steps))
        /\ steps # <<>> =>
               /\ Len(startBars) = barCount
               /\ Len(bars) = barCount
               /\ steps = SequenceFor(algo, startBars)

\* a quicksort paused in mid-run at a frame boundary, at a size reached by a
\* size key
C34_Witness ==
    /\ FrameBoundary
    /\ algo = QUICK
    /\ sizeIdx = SIZE_COUNT - 1
    /\ Paused
    /\ 0 < stepIdx


\* ------------------------------------------------------------------------
\* C35: in every reachable state sizeIdx is an index of the size list and
\* bars and colorMap both have the length SIZE_OPTIONS[sizeIdx]; the D
\* handler at the largest size and the A handler at the smallest change
\* nothing, so they do not reshuffle either
C35_SizeIndexInRange ==
    /\ [](/\ sizeIdx \in 0..(SIZE_COUNT - 1)
          /\ Len(bars) = SIZE_OPTIONS[sizeIdx + 1]
          /\ Len(colorMap) = SIZE_OPTIONS[sizeIdx + 1])
    /\ [][((SizeUpStep /\ sizeIdx = SIZE_COUNT - 1) \/
           (SizeDownStep /\ sizeIdx = 0)) =>
              UNCHANGED <<bars, colorMap, algo, running, finished, speed,
                          sizeIdx, comparisons, swaps, steps, stepIdx,
                          executed>>]_vars

\* D was just handled in a paused run, which it left alone: the size was
\* already the largest
C35_Witness ==
    /\ pc = AT_D + 1
    /\ sizeIdx = SIZE_COUNT - 1
    /\ Paused
    /\ 0 < stepIdx


\* ------------------------------------------------------------------------
\* the step that is being taken is the handler of the R key
ShuffleKeyStep == pc' = AT_R + 1 /\ pc <= AT_R

\* the step that is being taken is one of the handlers that reset (an
\* algorithm key, R, a size key, SPACE pressed when finished)
ResetStep ==
    \/ \E i \in 0..(ALGO_COUNT - 1) : AlgoKeyStep(i)
    \/ ShuffleKeyStep
    \/ SizeUpStep
    \/ SizeDownStep
    \/ SpaceStep /\ finished

\* C36: no reset changes the speed; R also keeps the selected algorithm and
\* the size; the UP and DOWN handlers change nothing but the speed (values,
\* annotations, counters, cursor, sequence, running, finished stay)
C36_ResetKeepsSpeed ==
    [][/\ ResetStep => speed' = speed
       /\ ShuffleKeyStep =>
              /\ algo' = algo
              /\ sizeIdx' = sizeIdx
              /\ steps' = <<>>
              /\ IsPerm(bars', barCount)
       /\ (SpeedUpStep \/ SpeedDownStep) =>
              UNCHANGED <<bars, colorMap, comparisons, swaps, stepIdx, steps,
                          running, finished, algo, sizeIdx>>]_vars

\* R was just handled with speed, algorithm and size all away from their
\* initial values
C36_Witness ==
    /\ pc = AT_R + 1
    /\ steps = <<>>
    /\ speed = MAX_SPEED
    /\ algo = HEAP
    /\ sizeIdx = 0

====
